---- MODULE Spec2Model ----
(***************************************************************************)
(* Model of transcription.py: one transcription job (process_file) driving *)
(* split_audio, the transcription backends and the output / log files.     *)
(*                                                                         *)
(* Times are integers in centiseconds: get_audio_duration yields           *)
(* h*3600 + m*60 + s + cc/100 seconds, i.e. a whole number of centiseconds,*)
(* and chunk_duration_sec is a whole number of seconds. The float          *)
(* quotient total/chunk is never within rounding distance of an integer    *)
(* it does not equal (its distance is at least 0.01/chunk), so int() of    *)
(* it is the exact truncated quotient.                                     *)
(*                                                                         *)
(* File contents are sequences of tokens. A fragment of transcript is a    *)
(* sequence of text tokens (the empty string is <<>>), the separator       *)
(* literal is the one-token sequence Separator, and each log write is one  *)
(* token. Writing is concatenation.                                        *)
(***************************************************************************)
EXTENDS Integers, Sequences, FiniteSets, TLC

VARIABLES
    chunk_duration,    \* CONFIG["chunk_duration"] (minutes)
    api_service,       \* CONFIG["api_service"]
    api_key_set,       \* API_KEYS[service] differs from the placeholder
    output_arg,        \* process_file's output_file argument (<<>> is None)
    fs,                \* the files at the output and log paths
    temp_files,        \* indices of the segment files present in temp_folder
    pc,                \* position of the job in process_file
    output_file,       \* process_file local
    log_file,          \* process_file local
    duration_match,    \* get_audio_duration local: did the regex match
    total_duration,    \* split_audio local (centiseconds, -1 before the probe)
    num_chunks,        \* split_audio local
    chunk_files,       \* split_audio local: segment indices extracted so far
    windows,           \* the extraction commands run so far
    segments,          \* process_file local
    i,                 \* process_file loop index
    all_text,          \* process_file local
    segment_text,      \* process_file local
    transcript_status, \* transcribe_segment_assemblyai local
    polls,             \* status requests answered with a non-terminal status
    temp_dir,          \* temp_folder exists
    j,                 \* cleanup loop index
    exc,               \* the exception raised / propagated ("none" if none)
    result,            \* process_file's return value (<<>> if none yet)
    exit_code,         \* main's return value (-1 while main has not returned)
    called,            \* history: segment indices handed to transcribe_segment
    returned,          \* history: texts returned by transcribe_segment
    how,               \* history: which return statement gave each text
    appended           \* history: loop indices whose append step ran

vars == <<chunk_duration, api_service, api_key_set, output_arg, fs, temp_files,
          temp_dir,
          pc, output_file, log_file, total_duration, num_chunks, chunk_files,
          windows, segments, i, all_text, segment_text, transcript_status,
          polls, j, exc, result, called, returned, how, appended,
          duration_match, exit_code>>

-----------------------------------------------------------------------------
(* Bounds of the model *)

\* Probe outcomes that would give more windows than this are not explored.
MaxSegments == 3
\* Largest hours field of the probed duration.
MaxHours == 0
\* The poll counter saturates here (the loop itself is not bounded).
MaxPolls == 2

\* Minutes, seconds and centiseconds fields of the probed duration.
ProbeMinutes == {0, 10, 15, 25}
ProbeSeconds == {0, 59}
ProbeCentis == {0, 50}
\* CONFIG["chunk_duration"] after main: the default or a positive --chunk.
ChunkChoices == {5, 10}
\* Texts a backend may return.
Texts == {<<>>, <<"a">>, <<"b">>}

-----------------------------------------------------------------------------
(* Pure helpers *)

Abs(x) == IF x < 0 THEN -x ELSE x

\* int(a / b): Python's int() truncates the float quotient toward zero.
TruncDiv(a, b) ==
    IF (a >= 0) = (b > 0) THEN Abs(a) \div Abs(b) ELSE -(Abs(a) \div Abs(b))

\* chunk_duration_sec = chunk_duration_min * 60, here in centiseconds.
ChunkSec(chunk_min) == chunk_min * 60 * 100

\* get_audio_duration's arithmetic on the four regex groups, in centiseconds.
DurationOf(h, m, s, c) == h * 360000 + m * 6000 + s * 100 + c

NumChunks_NoExtra(total, chunk_sec) == TruncDiv(total, chunk_sec)

\* num_chunks = int(total_duration / chunk_duration_sec) + 1
NumChunks(total, chunk_sec) == TruncDiv(total, chunk_sec) + 1

\* start_time = i * chunk_duration_sec
WindowStart(n, chunk_sec) == n * chunk_sec

WindowDuration_NoAdjust(n, num, total, chunk_sec) == chunk_sec

\* duration = total - start for the last window, chunk_duration_sec otherwise
WindowDuration(n, num, total, chunk_sec) ==
    IF n = num - 1 THEN total - WindowStart(n, chunk_sec) ELSE chunk_sec

\* format_time: <<hours, minutes, secs>> of a time; // and % floor, int() of a
\* non-negative remainder drops the fraction.
format_time(cs) ==
    << cs \div 360000, (cs % 360000) \div 6000, (cs % 6000) \div 100 >>

Separator == <<"SEP">>

\* log_file = output_file.replace(".txt", "_log.txt"); a path is a sequence
\* of pieces, one of which may be the literal ".txt".
LogPathOf(path) ==
    [n \in DOMAIN path |-> IF path[n] = ".txt" THEN "_log.txt" ELSE path[n]]

\* output_file when none is given: output_folder/transcription_<name>_<ts>.txt
DerivedOutput == <<"transcriptions/transcription_audio_ts", ".txt">>

OutputArgs == {<<>>, <<"out", ".txt">>, <<"out">>}

OutputFileOf(arg) == IF arg = <<>> THEN DerivedOutput ELSE arg

Paths == {OutputFileOf(a) : a \in OutputArgs}
            \cup {LogPathOf(OutputFileOf(a)) : a \in OutputArgs}

NoFile == [exists |-> FALSE, data |-> <<>>]
FileOf(d) == [exists |-> TRUE, data |-> d]

\* open(path, "w") then write(d)
WriteNew(f, path, d) == [f EXCEPT ![path] = FileOf(d)]
WriteAppend_Truncates(f, path, d) == [f EXCEPT ![path] = FileOf(d)]

\* open(path, "a") then write(d)
WriteAppend(f, path, d) == [f EXCEPT ![path] = FileOf(f[path].data \o d)]

\* What the append step writes for loop index idx (lines 399-402).
FragmentWritten_AlwaysSeparator(idx, text) == Separator \o text

FragmentWritten(idx, text) == IF idx = 0 THEN text ELSE Separator \o text

\* What the loop adds to all_text for loop index idx (lines 391-394).
FragmentJoined(idx, text) == IF idx > 0 THEN Separator \o text ELSE text

Services == {"local", "assemblyai", "openai"}

-----------------------------------------------------------------------------
(* Initial states: main has set CONFIG from the arguments and is about to
   call check_dependencies (which removes the .wav files left in
   temp_folder) and then process_file. *)

Init ==
    /\ chunk_duration \in ChunkChoices
    /\ api_service \in Services
    /\ api_key_set \in (IF api_service = "local" THEN {FALSE} ELSE BOOLEAN)
    /\ output_arg \in OutputArgs
    /\ \E old \in (IF output_arg = <<>> THEN {FALSE} ELSE BOOLEAN) :
          fs = [p \in Paths |->
                  IF old /\ p = output_arg THEN FileOf(<<"OLD">>) ELSE NoFile]
    /\ temp_files = {}
    /\ temp_dir \in BOOLEAN
    /\ pc = "start"
    /\ output_file = <<>>
    /\ log_file = <<>>
    /\ total_duration = -1
    /\ num_chunks = 0
    /\ chunk_files = <<>>
    /\ windows = <<>>
    /\ segments = <<>>
    /\ i = 0
    /\ all_text = <<>>
    /\ segment_text = <<>>
    /\ transcript_status = "none"
    /\ polls = 0
    /\ j = 0
    /\ exc = "none"
    /\ result = <<>>
    /\ called = <<>>
    /\ returned = <<>>
    /\ how = <<>>
    /\ appended = <<>>
    /\ duration_match = "unset"
    /\ exit_code = -1

-----------------------------------------------------------------------------
(* process_file, lines 344-371: paths and the log header *)

StartJob ==
    /\ pc = "start"
    /\ exit_code = -1
    /\ output_file' = OutputFileOf(output_arg)
    /\ log_file' = LogPathOf(OutputFileOf(output_arg))
    /\ fs' = WriteNew(fs, LogPathOf(OutputFileOf(output_arg)), <<"HDR">>)
    /\ pc' = "probe"
    /\ UNCHANGED <<exit_code, chunk_duration, api_service, api_key_set, output_arg,
                   temp_files, temp_dir, total_duration, num_chunks,
                   chunk_files, windows, segments, i, all_text, segment_text,
                   transcript_status, polls, j, exc, result, called, returned,
                   appended, how,
                   duration_match>>

\* main, lines 528-530: check_dependencies returns False, main returns 1
\* and process_file is never called.
DependencyMissing ==
    /\ pc = "start"
    /\ exit_code = -1
    /\ exit_code' = 1
    /\ UNCHANGED <<chunk_duration, api_service, api_key_set, output_arg, fs,
                   temp_files, temp_dir, pc, output_file, log_file,
                   total_duration, num_chunks, chunk_files, windows, segments,
                   i, all_text, segment_text, transcript_status, polls, j,
                   exc, result, called, returned, how, appended,
                   duration_match>>

\* process_file, lines 344-368, with os.makedirs or open(log_file, "w")
\* raising: this is before the try, so the exception goes straight to the
\* caller.
StartJobRaise ==
    /\ pc = "start"
    /\ exit_code = -1
    /\ output_file' = OutputFileOf(output_arg)
    /\ log_file' = LogPathOf(OutputFileOf(output_arg))
    /\ exc' = "OSError"
    /\ pc' = "Aborted"
    /\ UNCHANGED <<exit_code, chunk_duration, api_service, api_key_set,
                   output_arg, fs, temp_files, temp_dir, total_duration,
                   num_chunks, chunk_files, windows, segments, i, all_text,
                   segment_text, transcript_status, polls, j, result, called,
                   returned, how, appended, duration_match>>

\* raise: control goes to the except clause of process_file (line 439).
Raise(kind) ==
    /\ exc' = kind
    /\ pc' = "handler"

-----------------------------------------------------------------------------
(* split_audio *)

ProbeNoMatch_Guess ==
    /\ pc = "probe"
    /\ temp_dir' = TRUE
    /\ duration_match' = "nomatch"
    /\ total_duration' = 0
    /\ num_chunks' = NumChunks(0, ChunkSec(chunk_duration))
    /\ chunk_files' = <<>>
    /\ pc' = "extract"
    /\ UNCHANGED <<exit_code, chunk_duration, api_service, api_key_set, output_arg, fs,
                   temp_files, output_file, log_file, windows, segments, i,
                   all_text, segment_text, transcript_status, polls, j, exc,
                   result, called, returned, appended, how>>

\* lines 130-133 with get_audio_duration finding no duration (line 103)
ProbeNoMatch ==
    /\ pc = "probe"
    /\ temp_dir' = TRUE
    /\ duration_match' = "nomatch"
    /\ Raise("ValueError")
    /\ UNCHANGED <<exit_code, chunk_duration, api_service, api_key_set, output_arg, fs,
                   temp_files, output_file, log_file, total_duration,
                   num_chunks, chunk_files, windows, segments, i, all_text,
                   segment_text, transcript_status, polls, j, result, called,
                   returned, appended, how>>

\* lines 130-142 with get_audio_duration matching HH:MM:SS.cc
ProbeMatch(h, m, s, c) ==
    /\ pc = "probe"
    /\ NumChunks(DurationOf(h, m, s, c), ChunkSec(chunk_duration)) <= MaxSegments
    /\ temp_dir' = TRUE
    /\ duration_match' = "match"
    /\ total_duration' = DurationOf(h, m, s, c)
    /\ num_chunks' = NumChunks(DurationOf(h, m, s, c), ChunkSec(chunk_duration))
    /\ chunk_files' = <<>>
    /\ pc' = "extract"
    /\ UNCHANGED <<exit_code, chunk_duration, api_service, api_key_set, output_arg, fs,
                   temp_files, output_file, log_file, windows, segments, i,
                   all_text, segment_text, transcript_status, polls, j, exc,
                   result, called, returned, appended, how>>

\* The extraction command of the loop's current iteration (lines 146-173).
ExtractCommand ==
    LET n == Len(chunk_files)
        start == WindowStart(n, ChunkSec(chunk_duration))
        duration == WindowDuration(n, num_chunks, total_duration,
                                   ChunkSec(chunk_duration))
    IN [index |-> n, start |-> start, duration |-> duration,
        ss |-> format_time(start), t |-> format_time(duration)]

\* one iteration of the loop, ffmpeg exits 0 (lines 145-183)
ExtractOk ==
    /\ pc = "extract"
    /\ Len(chunk_files) < num_chunks
    /\ windows' = Append(windows, ExtractCommand)
    /\ temp_files' = temp_files \cup {Len(chunk_files)}
    /\ chunk_files' = Append(chunk_files, Len(chunk_files))
    /\ UNCHANGED <<exit_code, chunk_duration, api_service, api_key_set, output_arg, fs,
                   temp_dir, pc, output_file, log_file, total_duration,
                   num_chunks, segments, i, all_text, segment_text,
                   transcript_status, polls, j, exc, result, called, returned,
                   appended, how,
                   duration_match>>

\* one iteration of the loop, ffmpeg exits non-zero: check=True raises
\* (line 180); the output file may or may not have been written.
ExtractFail(created) ==
    /\ pc = "extract"
    /\ Len(chunk_files) < num_chunks
    /\ windows' = Append(windows, ExtractCommand)
    /\ temp_files' = IF created THEN temp_files \cup {Len(chunk_files)}
                                ELSE temp_files
    /\ Raise("CalledProcessError")
    /\ UNCHANGED <<exit_code, chunk_duration, api_service, api_key_set, output_arg, fs,
                   temp_dir, output_file, log_file, total_duration,
                   num_chunks, chunk_files, segments, i, all_text,
                   segment_text, transcript_status, polls, j, result, called,
                   returned, appended, how,
                   duration_match>>

LoopHead_StopsEarly(idx, segs) ==
    IF idx < Len(segs) /\ idx < 1
    THEN /\ pc' = "transcribe"
         /\ called' = Append(called, segs[idx + 1])
         /\ transcript_status' = "none"
         /\ polls' = 0
         /\ j' = j
    ELSE /\ pc' = "cleanup"
         /\ j' = 0
         /\ UNCHANGED <<called, transcript_status, polls>>

\* The head of process_file's loop over segments (line 381): the next
\* segment is handed to transcribe_segment, or the loop is over.
LoopHead(idx, segs) ==
    IF idx < Len(segs)
    THEN /\ pc' = "transcribe"
         /\ called' = Append(called, segs[idx + 1])
         /\ transcript_status' = "none"
         /\ polls' = 0
         /\ j' = j
    ELSE /\ pc' = "cleanup"
         /\ j' = 0
         /\ UNCHANGED <<called, transcript_status, polls>>

SplitReturn_Early ==
    /\ pc = "extract"
    /\ Len(chunk_files) >= 1
    /\ segments' = chunk_files
    /\ all_text' = <<>>
    /\ i' = 0
    /\ LoopHead(0, chunk_files)
    /\ UNCHANGED <<exit_code, chunk_duration, api_service, api_key_set,
                   output_arg, fs, temp_files, temp_dir, output_file,
                   log_file, total_duration, num_chunks, chunk_files, windows,
                   segment_text, exc, result, returned, appended, how,
                   duration_match>>

\* split_audio returns (line 186); process_file lines 376-381
SplitReturn ==
    /\ pc = "extract"
    /\ Len(chunk_files) >= num_chunks
    /\ segments' = chunk_files
    /\ all_text' = <<>>
    /\ i' = 0
    /\ LoopHead(0, chunk_files)
    /\ UNCHANGED <<exit_code, chunk_duration, api_service, api_key_set, output_arg, fs,
                   temp_files, temp_dir, output_file, log_file,
                   total_duration, num_chunks, chunk_files, windows,
                   segment_text, exc, result, returned, appended, how,
                   duration_match>>

-----------------------------------------------------------------------------
(* transcribe_segment and the three backends *)

\* return text: back in process_file with segment_text bound (line 388)
Return(text, kind) ==
    /\ segment_text' = text
    /\ returned' = Append(returned, text)
    /\ how' = Append(how, kind)
    /\ pc' = "append"
    /\ exc' = exc

\* What no backend step changes, apart from pc, exc, segment_text, returned,
\* transcript_status and polls.
BackendFrame ==
    UNCHANGED <<exit_code, chunk_duration, api_service, api_key_set, output_arg, fs,
                temp_files, temp_dir, output_file, log_file, total_duration,
                num_chunks, chunk_files, windows, segments, i, all_text, j,
                result, called, appended, duration_match>>

\* transcribe_segment_local returns result["text"] (lines 199-211)
LocalReturn(text) ==
    /\ pc = "transcribe"
    /\ api_service = "local"
    /\ Return(text, "text")
    /\ BackendFrame
    /\ UNCHANGED <<transcript_status, polls>>

\* import whisper, load_model or model.transcribe raises
LocalRaise ==
    /\ pc = "transcribe"
    /\ api_service = "local"
    /\ Raise("BackendError")
    /\ BackendFrame
    /\ UNCHANGED <<segment_text, returned, transcript_status, polls, how>>

OpenaiUnconfigured_Raises ==
    /\ pc = "transcribe"
    /\ api_service = "openai"
    /\ ~api_key_set
    /\ Raise("BackendError")
    /\ BackendFrame
    /\ UNCHANGED <<segment_text, returned, transcript_status, polls, how>>

\* transcribe_segment_openai with the placeholder key (lines 293-296)
OpenaiUnconfigured ==
    /\ pc = "transcribe"
    /\ api_service = "openai"
    /\ ~api_key_set
    /\ Return(<<>>, "unconfigured")
    /\ BackendFrame
    /\ UNCHANGED <<transcript_status, polls>>

\* transcribe_segment_openai returns response.text (lines 298-310)
OpenaiReturn(text) ==
    /\ pc = "transcribe"
    /\ api_service = "openai"
    /\ api_key_set
    /\ Return(text, "text")
    /\ BackendFrame
    /\ UNCHANGED <<transcript_status, polls>>

\* the import, the client or the request raises (lines 298-308)
OpenaiRaise ==
    /\ pc = "transcribe"
    /\ api_service = "openai"
    /\ api_key_set
    /\ Raise("BackendError")
    /\ BackendFrame
    /\ UNCHANGED <<segment_text, returned, transcript_status, polls, how>>

\* transcribe_segment_assemblyai with the placeholder key (lines 224-227)
AaiUnconfigured ==
    /\ pc = "transcribe"
    /\ api_service = "assemblyai"
    /\ ~api_key_set
    /\ Return(<<>>, "unconfigured")
    /\ BackendFrame
    /\ UNCHANGED <<transcript_status, polls>>

\* the upload answers 200 (lines 229-248)
AaiUploadOk ==
    /\ pc = "transcribe"
    /\ api_service = "assemblyai"
    /\ api_key_set
    /\ pc' = "aai_submit"
    /\ BackendFrame
    /\ UNCHANGED <<segment_text, returned, transcript_status, polls, exc, how>>

\* the upload answers another status code (lines 244-246)
AaiUploadRejected ==
    /\ pc = "transcribe"
    /\ api_service = "assemblyai"
    /\ api_key_set
    /\ Return(<<>>, "rejected")
    /\ BackendFrame
    /\ UNCHANGED <<transcript_status, polls>>

\* reading the file or requests.post raises (lines 236-242)
AaiUploadRaise ==
    /\ pc = "transcribe"
    /\ api_service = "assemblyai"
    /\ api_key_set
    /\ Raise("BackendError")
    /\ BackendFrame
    /\ UNCHANGED <<segment_text, returned, transcript_status, polls, how>>

\* the transcript request answers 200 (lines 251-264)
AaiSubmitOk ==
    /\ pc = "aai_submit"
    /\ pc' = "aai_poll"
    /\ BackendFrame
    /\ UNCHANGED <<segment_text, returned, transcript_status, polls, exc, how>>

\* the transcript request answers another status code (lines 260-262)
AaiSubmitRejected ==
    /\ pc = "aai_submit"
    /\ Return(<<>>, "rejected")
    /\ BackendFrame
    /\ UNCHANGED <<transcript_status, polls>>

\* requests.post raises (line 258)
AaiSubmitRaise ==
    /\ pc = "aai_submit"
    /\ Raise("BackendError")
    /\ BackendFrame
    /\ UNCHANGED <<segment_text, returned, transcript_status, polls, how>>

StatusValues == {"completed", "error", "queued", "processing"}

\* the status request is answered (lines 269-270)
AaiPollResponse(status) ==
    /\ pc = "aai_poll"
    /\ transcript_status' = status
    /\ pc' = "aai_status"
    /\ BackendFrame
    /\ UNCHANGED <<segment_text, returned, polls, exc, how>>

\* requests.get or .json() raises (line 270)
AaiPollRaise ==
    /\ pc = "aai_poll"
    /\ Raise("BackendError")
    /\ BackendFrame
    /\ UNCHANGED <<segment_text, returned, transcript_status, polls, how>>

\* status == "completed": return transcript_status["text"] (lines 272-274)
AaiCompleted(text) ==
    /\ pc = "aai_status"
    /\ transcript_status = "completed"
    /\ Return(text, "text")
    /\ BackendFrame
    /\ UNCHANGED <<transcript_status, polls>>

AaiError_Raises ==
    /\ pc = "aai_status"
    /\ transcript_status = "error"
    /\ Raise("BackendError")
    /\ BackendFrame
    /\ UNCHANGED <<segment_text, returned, transcript_status, polls, how>>

\* status == "error": return "" (lines 275-277)
AaiError ==
    /\ pc = "aai_status"
    /\ transcript_status = "error"
    /\ Return(<<>>, "error")
    /\ BackendFrame
    /\ UNCHANGED <<transcript_status, polls>>

AaiPending_GivesUp ==
    /\ pc = "aai_status"
    /\ transcript_status \notin {"completed", "error"}
    /\ IF polls < MaxPolls
       THEN /\ polls' = polls + 1
            /\ pc' = "aai_poll"
            /\ UNCHANGED <<segment_text, returned, exc, how>>
       ELSE /\ polls' = polls
            /\ Return(<<>>, "error")
    /\ BackendFrame
    /\ UNCHANGED transcript_status

\* any other status: sleep and poll again (lines 279-280)
AaiPending ==
    /\ pc = "aai_status"
    /\ transcript_status \notin {"completed", "error"}
    /\ polls' = IF polls < MaxPolls THEN polls + 1 ELSE polls
    /\ pc' = "aai_poll"
    /\ BackendFrame
    /\ UNCHANGED <<segment_text, returned, transcript_status, exc, how>>

-----------------------------------------------------------------------------
(* process_file: the rest of the loop body, cleanup, the handler *)

\* lines 391-402: all_text grows, the fragment is appended to output_file
AppendOutput ==
    /\ pc = "append"
    /\ all_text' = all_text \o FragmentJoined(i, segment_text)
    /\ fs' = WriteAppend(fs, output_file, FragmentWritten(i, segment_text))
    /\ appended' = Append(appended, i)
    /\ pc' = "logseg"
    /\ UNCHANGED <<exit_code, chunk_duration, api_service, api_key_set, output_arg,
                   temp_files, temp_dir, output_file, log_file,
                   total_duration, num_chunks, chunk_files, windows, segments,
                   i, segment_text, transcript_status, polls, j, exc, result,
                   called, returned, how,
                   duration_match>>

LogSegment_NoAdvance ==
    /\ pc = "logseg"
    /\ fs' = WriteAppend(fs, log_file, <<"SEG">>)
    /\ i' = i
    /\ LoopHead(i, segments)
    /\ UNCHANGED <<exit_code, chunk_duration, api_service, api_key_set, output_arg,
                   temp_files, temp_dir, output_file, log_file,
                   total_duration, num_chunks, chunk_files, windows, segments,
                   all_text, segment_text, exc, result, returned, appended,
                   how, duration_match>>

\* lines 405-416 and the next turn of the loop (line 381)
LogSegment ==
    /\ pc = "logseg"
    /\ fs' = WriteAppend(fs, log_file, <<"SEG">>)
    /\ i' = i + 1
    /\ LoopHead(i + 1, segments)
    /\ UNCHANGED <<exit_code, chunk_duration, api_service, api_key_set, output_arg,
                   temp_files, temp_dir, output_file, log_file,
                   total_duration, num_chunks, chunk_files, windows, segments,
                   all_text, segment_text, exc, result, returned, appended, how,
                   duration_match>>

\* one turn of the cleanup loop (lines 420-422)
RemoveSegment ==
    /\ pc = "cleanup"
    /\ j < Len(segments)
    /\ temp_files' = temp_files \ {segments[j + 1]}
    /\ j' = j + 1
    /\ UNCHANGED <<exit_code, chunk_duration, api_service, api_key_set, output_arg, fs,
                   temp_dir, pc, output_file, log_file, total_duration,
                   num_chunks, chunk_files, windows, segments, i, all_text,
                   segment_text, transcript_status, polls, exc, result,
                   called, returned, appended, how,
                   duration_match>>

\* os.remove raises (line 422)
RemoveSegmentRaise ==
    /\ pc = "cleanup"
    /\ j < Len(segments)
    /\ segments[j + 1] \in temp_files
    /\ Raise("OSError")
    /\ UNCHANGED <<exit_code, chunk_duration, api_service, api_key_set, output_arg, fs,
                   temp_files, temp_dir, output_file, log_file,
                   total_duration, num_chunks, chunk_files, windows, segments,
                   i, all_text, segment_text, transcript_status, polls, j,
                   result, called, returned, appended, how,
                   duration_match>>

\* os.rmdir of temp_folder, whose failure is swallowed (lines 424-427)
RemoveTempDir(ok) ==
    /\ pc = "cleanup"
    /\ j >= Len(segments)
    /\ temp_dir' = IF ok THEN FALSE ELSE temp_dir
    /\ pc' = "finalize"
    /\ UNCHANGED <<exit_code, chunk_duration, api_service, api_key_set, output_arg, fs,
                   temp_files, output_file, log_file, total_duration,
                   num_chunks, chunk_files, windows, segments, i, all_text,
                   segment_text, transcript_status, polls, j, exc, result,
                   called, returned, appended, how,
                   duration_match>>

\* lines 430-437: the closing log line, return output_file
Finalize ==
    /\ pc = "finalize"
    /\ fs' = WriteAppend(fs, log_file, <<"END">>)
    /\ result' = output_file
    /\ pc' = "Done"
    /\ UNCHANGED <<exit_code, chunk_duration, api_service, api_key_set, output_arg,
                   temp_files, temp_dir, output_file, log_file,
                   total_duration, num_chunks, chunk_files, windows, segments,
                   i, all_text, segment_text, transcript_status, polls, j,
                   exc, called, returned, appended, how,
                   duration_match>>

\* open(log_file, "a") or the write raises (lines 431-432)
FinalizeRaise ==
    /\ pc = "finalize"
    /\ Raise("OSError")
    /\ UNCHANGED <<exit_code, chunk_duration, api_service, api_key_set,
                   output_arg, fs, temp_files, temp_dir, output_file,
                   log_file, total_duration, num_chunks, chunk_files, windows,
                   segments, i, all_text, segment_text, transcript_status,
                   polls, j, result, called, returned, how, appended,
                   duration_match>>

Handler_NoLog ==
    /\ pc = "handler"
    /\ pc' = "Aborted"
    /\ UNCHANGED <<exit_code, chunk_duration, api_service, api_key_set,
                   output_arg, fs, temp_files, temp_dir, output_file,
                   log_file, total_duration, num_chunks, chunk_files, windows,
                   segments, i, all_text, segment_text, transcript_status,
                   polls, j, exc, result, called, returned, appended, how,
                   duration_match>>

\* the except clause (lines 439-445): log the error, re-raise
Handler ==
    /\ pc = "handler"
    /\ fs' = WriteAppend(fs, log_file, <<"ERR">>)
    /\ pc' = "Aborted"
    /\ UNCHANGED <<exit_code, chunk_duration, api_service, api_key_set, output_arg,
                   temp_files, temp_dir, output_file, log_file,
                   total_duration, num_chunks, chunk_files, windows, segments,
                   i, all_text, segment_text, transcript_status, polls, j,
                   exc, result, called, returned, appended, how,
                   duration_match>>

\* What main's last steps leave alone: everything but exit_code.
MainFrame ==
    UNCHANGED <<chunk_duration, api_service, api_key_set, output_arg, fs,
                temp_files, temp_dir, pc, output_file, log_file,
                total_duration, num_chunks, chunk_files, windows, segments, i,
                all_text, segment_text, transcript_status, polls, j, exc,
                result, called, returned, how, appended, duration_match>>

\* main, lines 534-535: process_file returned, main returns 0
MainReturn ==
    /\ pc = "Done"
    /\ exit_code = -1
    /\ exit_code' = 0
    /\ MainFrame

MainExcept_ReturnsZero ==
    /\ pc = "Aborted"
    /\ exit_code = -1
    /\ exit_code' = 0
    /\ MainFrame

\* main, lines 536-538: process_file raised, main returns 1
MainExcept ==
    /\ pc = "Aborted"
    /\ exit_code = -1
    /\ exit_code' = 1
    /\ MainFrame

-----------------------------------------------------------------------------

Next ==
    \/ DependencyMissing
    \/ StartJob
    \/ StartJobRaise
    \/ ProbeNoMatch
    \/ \E h \in 0..MaxHours, m \in ProbeMinutes, s \in ProbeSeconds,
          c \in ProbeCentis : ProbeMatch(h, m, s, c)
    \/ ExtractOk
    \/ \E created \in BOOLEAN : ExtractFail(created)
    \/ SplitReturn
    \/ \E text \in Texts : LocalReturn(text)
    \/ LocalRaise
    \/ OpenaiUnconfigured
    \/ \E text \in Texts : OpenaiReturn(text)
    \/ OpenaiRaise
    \/ AaiUnconfigured
    \/ AaiUploadOk
    \/ AaiUploadRejected
    \/ AaiUploadRaise
    \/ AaiSubmitOk
    \/ AaiSubmitRejected
    \/ AaiSubmitRaise
    \/ \E status \in StatusValues : AaiPollResponse(status)
    \/ AaiPollRaise
    \/ \E text \in Texts : AaiCompleted(text)
    \/ AaiError
    \/ AaiPending
    \/ AppendOutput
    \/ LogSegment
    \/ RemoveSegment
    \/ RemoveSegmentRaise
    \/ \E ok \in BOOLEAN : RemoveTempDir(ok)
    \/ Finalize
    \/ FinalizeRaise
    \/ Handler
    \/ MainReturn
    \/ MainExcept

Spec == Init /\ [][Next]_vars

-----------------------------------------------------------------------------
(* Vocabulary of the properties *)

\* The job states of the orchestrator's state machine.
JobState ==
    CASE pc = "start" -> "Init"
      [] pc \in {"probe", "extract"} -> "Segmenting"
      [] pc \in {"transcribe", "aai_submit", "aai_poll", "aai_status",
                 "append", "logseg"} -> "TranscribingSegment"
      [] pc \in {"cleanup", "finalize"} -> "Cleanup"
      [] pc = "handler" -> "Aborting"
      [] OTHER -> pc

\* split_audio has returned its list to process_file.
SplitReturned ==
    /\ pc \notin {"start", "probe", "extract"}
    /\ exc \notin {"ValueError", "CalledProcessError"}
    /\ duration_match = "match"

\* transcribe_segment is running for segment i.
InBackend == pc \in {"transcribe", "aai_submit", "aai_poll", "aai_status"}

\* The transcript part of a file's content: fragments and separators.
TranscriptOf(data) == SelectSeq(data, LAMBDA x : x \in {"SEP", "a", "b"})

CountSep(data) == Len(SelectSeq(data, LAMBDA x : x = "SEP"))

\* The fragments in order, one separator between consecutive ones.
RECURSIVE Joined(_)
Joined(texts) ==
    IF Len(texts) = 0 THEN <<>>
    ELSE IF Len(texts) = 1 THEN texts[1]
    ELSE Joined(SubSeq(texts, 1, Len(texts) - 1)) \o Separator
            \o texts[Len(texts)]

\* <<0, 1, ..., n-1>>
Upto(n) == [k \in 1..n |-> k - 1]

\* The windows as <<start, duration>> pairs.
WindowPairs == [n \in 1..Len(windows) |-> <<windows[n].start, windows[n].duration>>]

OutData == fs[output_file].data

-----------------------------------------------------------------------------
(* C1..C10 *)

\* C1: for total_duration >= 0 and chunk_seconds > 0 the windows computed by
\* split_audio start at 0, each starts where the previous one ends, none has
\* a negative duration, and once all are computed they end at total_duration
\* (their union is [0, total_duration)).
C1_WindowsCoverFile ==
    (total_duration >= 0 /\ ChunkSec(chunk_duration) > 0) =>
        /\ \A n \in 1..Len(windows) : windows[n].duration >= 0
        /\ Len(windows) > 0 => windows[1].start = 0
        /\ \A n \in 1..(Len(windows) - 1) :
              windows[n + 1].start = windows[n].start + windows[n].duration
        /\ SplitReturned =>
              /\ Len(windows) = num_chunks
              /\ Len(windows) >= 1
              /\ windows[Len(windows)].start + windows[Len(windows)].duration
                    = total_duration

C1_Witness ==
    /\ SplitReturned
    /\ Len(windows) = 3
    /\ total_duration = DurationOf(0, 25, 59, 50)

\* C2: when all n segments of a job have been processed, the transcript the
\* job wrote holds exactly n-1 separators, no separator before fragment 0,
\* and the fragments in segment order with one separator between
\* consecutive ones, whatever the texts (the empty one included).
C2_SeparatorsBetweenFragments ==
    (SplitReturned /\ Len(segments) >= 1 /\ Len(appended) = Len(segments)) =>
        /\ CountSep(OutData) = Len(segments) - 1
        /\ TranscriptOf(OutData) = Joined(returned)
        /\ appended = Upto(Len(segments))

C2_Witness ==
    /\ pc = "Done"
    /\ Len(segments) = 3
    /\ returned = << <<"a">>, <<>>, <<"b">> >>

\* C3: at every point of a job the output file holds the fragments of all
\* segments already appended, with their separators; while segment i is in
\* the backend (or the job stopped there) these are segments 0..i-1; at most
\* one returned fragment is not yet in the file.
C3_IncrementalSave ==
    (pc # "start") =>
        /\ TranscriptOf(OutData) = Joined(SubSeq(returned, 1, Len(appended)))
        /\ Len(returned) - Len(appended) \in {0, 1}
        /\ (InBackend \/ exc = "BackendError") =>
              /\ Len(appended) = i
              /\ Len(returned) = i
              /\ appended = Upto(i)

C3_Witness ==
    /\ pc = "Aborted"
    /\ exc = "BackendError"
    /\ i = 2
    /\ TranscriptOf(OutData) = <<"a", "SEP", "b">>

\* C4: whenever the job has terminated, Done or Aborted, no segment file
\* created by split_audio remains in temp_folder.
C4_NoSegmentFileLeft ==
    pc \in {"Done", "Aborted"} => temp_files = {}

\* C5: the except clause appends the error text to the log file, re-raises
\* the exception, and neither writes to the output file nor removes
\* anything from it.
C5_HandlerLeavesOutput ==
    [][pc = "handler" =>
          /\ exc # "none"
          /\ exc' = exc
          /\ pc' = "Aborted"
          /\ fs'[log_file].data = fs[log_file].data \o <<"ERR">>
          /\ fs'[output_file] = fs[output_file]]_vars

\* C6: split_audio makes floor(total / chunk_seconds) + 1 windows, window n
\* starting at n * chunk_seconds, of duration chunk_seconds except the last,
\* of duration total - start; 1500 s by 600 s gives [0,600), [600,1200),
\* [1200,1500) and 600 s by 600 s gives [0,600) and a zero-length window at
\* 600, which is extracted as a segment too.
C6_WindowFormula ==
    LET chunk == ChunkSec(chunk_duration) IN
    /\ duration_match = "match" => num_chunks = (total_duration \div chunk) + 1
    /\ \A n \in 1..Len(windows) :
          /\ windows[n].index = n - 1
          /\ windows[n].start = (n - 1) * chunk
          /\ windows[n].duration =
                IF n = num_chunks THEN total_duration - (n - 1) * chunk
                                  ELSE chunk
    /\ SplitReturned =>
          /\ Len(windows) = (total_duration \div chunk) + 1
          /\ segments = Upto(Len(windows))
          /\ (total_duration = 150000 /\ chunk = 60000) =>
                WindowPairs = << <<0, 60000>>, <<60000, 60000>>,
                                 <<120000, 30000>> >>
          /\ (total_duration = 60000 /\ chunk = 60000) =>
                WindowPairs = << <<0, 60000>>, <<60000, 0>> >>

C6_Witness ==
    /\ pc = "Done"
    /\ total_duration = 60000
    /\ ChunkSec(chunk_duration) = 60000
    /\ Len(segments) = 2
    /\ windows[2].duration = 0
    /\ appended = <<0, 1>>

\* C7: the append step runs once for each segment, in order, never twice
\* for the same one, and only for a segment whose transcription returned.
C7_OneAppendPerSegment ==
    /\ appended = Upto(Len(appended))
    /\ Len(appended) <= Len(returned)
    /\ Len(appended) <= Len(segments)
    /\ pc = "Done" => Len(appended) = Len(segments)

C7_Witness ==
    /\ pc = "Done"
    /\ appended = <<0, 1, 2>>

\* C8: when get_audio_duration finds no duration, split_audio raises before
\* any extraction command: no command was run, no segment file exists, no
\* segment is transcribed, and the job is aborting or Aborted.
C8_NoDurationNoExtraction ==
    duration_match = "nomatch" =>
        /\ windows = <<>>
        /\ temp_files = {}
        /\ called = <<>>
        /\ returned = <<>>
        /\ exc = "ValueError"
        /\ pc \in {"handler", "Aborted"}

C8_Witness ==
    /\ pc = "Aborted"
    /\ duration_match = "nomatch"
    /\ exc = "ValueError"

\* C9: when the extraction of a window fails, split_audio returns no list,
\* no segment is ever transcribed, and nothing is appended to the output
\* file.
C9_ExtractionFailureAborts ==
    /\ [](exc = "CalledProcessError" =>
            /\ segments = <<>>
            /\ called = <<>>
            /\ appended = <<>>
            /\ pc \in {"handler", "Aborted"})
    /\ [][exc = "CalledProcessError" => fs'[output_file] = fs[output_file]]_vars

\* C10: when the status endpoint answers "error", the assemblyai backend
\* returns the empty string without raising; the job appends that empty
\* fragment and goes on to the next segment (or to cleanup after the last).
C10_StatusErrorIsSoft ==
    /\ [][(pc = "aai_status" /\ transcript_status = "error") =>
            /\ pc' = "append"
            /\ segment_text' = <<>>
            /\ how' = Append(how, "error")
            /\ exc' = "none"]_vars
    /\ [][(pc = "append" /\ how[Len(how)] = "error") =>
            /\ pc' = "logseg"
            /\ appended' = Append(appended, i)
            /\ fs'[output_file].data =
                  fs[output_file].data \o (IF i = 0 THEN <<>> ELSE Separator)
            /\ exc' = "none"]_vars
    /\ [][(pc = "logseg" /\ how[Len(how)] = "error") =>
            /\ i' = i + 1
            /\ pc' = (IF i + 1 < Len(segments) THEN "transcribe" ELSE "cleanup")
            /\ exc' = "none"]_vars

C10_Witness ==
    /\ pc = "transcribe"
    /\ i = 1
    /\ how = <<"error">>
    /\ returned = << <<>> >>
    /\ appended = <<0>>

-----------------------------------------------------------------------------
(* C11..C20 *)

\* C11: a network or API error met by a remote backend (assemblyai, openai)
\* never raises into the job: the call returns the empty text and the loop
\* goes on; with the local backend a failure aborts the job.
C11_RemoteErrorsAreSoft ==
    /\ api_service \in {"assemblyai", "openai"} => exc # "BackendError"
    /\ (api_service = "local" /\ exc = "BackendError") =>
          pc \in {"handler", "Aborted"}

\* C12: once all segments are transcribed and appended, a failure while
\* deleting a segment file or removing temp_folder does not abort the job.
C12_CleanupFailureNotFatal ==
    (SplitReturned /\ Len(appended) = Len(segments)) =>
        /\ exc = "none"
        /\ pc \notin {"handler", "Aborted"}


\* C13: main returns 0 exactly when process_file returned (the job is Done),
\* and 1 when a dependency is missing (the job never starts) or when
\* process_file raised (the job is Aborted).
C13_ExitCode ==
    /\ exit_code \in {-1, 0, 1}
    /\ exit_code = 0 =>
          /\ pc = "Done"
          /\ exc = "none"
          /\ result = output_file
    /\ exit_code = 1 =>
          \/ pc = "start" /\ output_file = <<>> /\ exc = "none"
          \/ pc = "Aborted" /\ exc # "none" /\ result = <<>>
    /\ (pc = "Done" /\ exit_code = -1) => ENABLED MainReturn
    /\ (pc = "Aborted" /\ exit_code = -1) => ENABLED MainExcept

C13_Witness ==
    /\ exit_code = 1
    /\ pc = "Aborted"
    /\ exc = "CalledProcessError"

LogData == fs[log_file].data

\* The error entries a file holds.
ErrCount(data) == Len(SelectSeq(data, LAMBDA x : x = "ERR"))

\* The transcription calls that ended in a soft failure (placeholder key,
\* rejected request, status "error").
SoftFailures == Len(SelectSeq(how, LAMBDA h : h # "text"))

\* os.rmdir failed and the failure was swallowed.
RmdirFailed == pc \in {"finalize", "Done"} /\ temp_dir

\* The try block of process_file was entered.
TryEntered == pc # "start" /\ duration_match # "unset"

\* C15 (as stated): every failure, fatal or soft, in whatever job state, is
\* in the log file by the time it has propagated or has been absorbed.
C15_EveryFailureLogged ==
    /\ (pc = "start" /\ exit_code = 1) =>
          \E p \in Paths : ErrCount(fs[p].data) >= 1
    /\ pc # "start" =>
          ErrCount(LogData) >= SoftFailures
                                + (IF RmdirFailed THEN 1 ELSE 0)
                                + (IF pc = "Aborted" THEN 1 ELSE 0)

\* C15 (amended): an exception raised inside the try block of process_file
\* is appended to the log file by the except clause before it is re-raised;
\* soft failures, a swallowed rmdir failure and an exception raised before
\* the try block leave no entry in the log file.
C15_FatalFailuresLogged ==
    pc # "start" =>
        /\ ErrCount(LogData) = IF pc = "Aborted" /\ TryEntered THEN 1 ELSE 0
        /\ (pc = "Aborted" /\ TryEntered) =>
              /\ exc # "none"
              /\ LogData[Len(LogData)] = "ERR"
        /\ pc = "handler" => exc # "none"

C15_Witness ==
    /\ pc = "Aborted"
    /\ exc = "BackendError"
    /\ how = <<"error">>
    /\ ErrCount(LogData) = 1

\* The transitions between job states; "Aborting" is the except clause at
\* work, on the way from the failing state to Aborted.
JobTransitions ==
    {<<"Init", "Segmenting">>, <<"Segmenting", "TranscribingSegment">>,
     <<"TranscribingSegment", "Cleanup">>, <<"Cleanup", "Done">>,
     <<"Init", "Aborted">>, <<"Segmenting", "Aborting">>,
     <<"TranscribingSegment", "Aborting">>, <<"Cleanup", "Aborting">>,
     <<"Aborting", "Aborted">>}

\* A job exists and has not terminated.
JobRunning == pc \notin {"Done", "Aborted"} /\ exit_code = -1

\* A measure that goes down along the steps of a job that meets no failure,
\* wherever the state itself has no failing step.
Rank ==
    CASE pc \in {"start", "probe", "extract"} -> 5 * num_chunks + 8
      [] pc = "aai_status" -> 5 * Len(segments) - 4 * i + 7
      [] pc \in {"transcribe", "aai_submit", "aai_poll"} ->
            5 * Len(segments) - 4 * i + 6
      [] pc = "append" -> 5 * Len(segments) - 4 * i + 5
      [] pc = "logseg" -> 5 * Len(segments) - 4 * i + 4
      [] pc = "cleanup" -> Len(segments) - j + 2
      [] pc = "finalize" -> 1
      [] OTHER -> 0

\* Some step from here either fails or brings the job nearer to a state
\* that has a failing step.
AbortWithinReach ==
    ENABLED (Next /\ (pc' \in {"handler", "Aborted"} \/ Rank' < Rank))

\* Nothing of the job changes once it is Done or Aborted.
TerminalStaysPut ==
    pc \in {"Done", "Aborted"} =>
        /\ pc' = pc
        /\ UNCHANGED <<fs, temp_files, exc, result, called, returned, appended>>

\* C16: a job goes Init, Segmenting, TranscribingSegment(0..n-1), Cleanup,
\* Done: segments are transcribed in increasing index order, none skipped
\* or repeated; Cleanup is entered only after all n are transcribed and
\* appended; Done is entered only from Cleanup; Done and Aborted are
\* terminal and exclude each other; Aborted can be reached from every
\* state that is not terminal.
C16_StateMachine ==
    /\ [][JobState' # JobState => <<JobState, JobState'>> \in JobTransitions]_vars
    /\ [](called = Upto(Len(called)))
    /\ [](JobState = "TranscribingSegment" =>
            /\ Len(called) = i + 1
            /\ appended = Upto(i) \/ (appended = Upto(i + 1) /\ pc = "logseg"))
    /\ [](JobState = "Cleanup" =>
            /\ Len(segments) = num_chunks
            /\ called = Upto(Len(segments))
            /\ Len(returned) = Len(segments)
            /\ appended = Upto(Len(segments)))
    /\ [][TerminalStaysPut]_vars
    /\ [](pc = "Done" => exc = "none" /\ result = output_file)
    /\ [](pc = "Aborted" => exc # "none" /\ result = <<>>)
    /\ [](JobRunning => Rank >= 0 /\ AbortWithinReach)

C16_Witness ==
    /\ pc = "Done"
    /\ Len(segments) = 3
    /\ called = <<0, 1, 2>>
    /\ how = <<"text", "error", "rejected">>

\* C17 (as stated): segment i is extracted, transcribed and appended before
\* the extraction of segment i+1 starts.
C17_StrictlySequential ==
    [][Len(windows') > Len(windows) => Len(appended) = Len(windows)]_vars

\* C17 (amended): split_audio extracts every segment before the first
\* transcription starts; after that the segments are handled one at a
\* time, segment i being transcribed and appended before the transcription
\* of segment i+1 starts.
C17_ExtractAllThenSequential ==
    /\ pc \in {"start", "probe", "extract"} => called = <<>>
    /\ Len(called) >= 1 =>
          /\ Len(windows) = num_chunks
          /\ chunk_files = Upto(num_chunks)
          /\ segments = chunk_files
    /\ Len(returned) <= Len(called)
    /\ Len(appended) <= Len(returned)
    /\ Len(called) <= Len(appended) + 1
    /\ \A k \in 1..Len(appended) : appended[k] = called[k]

C17_Witness ==
    /\ pc = "transcribe"
    /\ Len(windows) = 3
    /\ temp_files = {0, 1, 2}
    /\ called = <<0>>
    /\ appended = <<>>

\* The polling loop of transcribe_segment_assemblyai is running.
InPolling == pc \in {"aai_poll", "aai_status"}

PollStep ==
    /\ (pc = "aai_status" /\ transcript_status = "completed") =>
          /\ pc' = "append"
          /\ returned' = Append(returned, segment_text')
          /\ how' = Append(how, "text")
          /\ exc' = "none"
    /\ (pc = "aai_status" /\ transcript_status = "error") =>
          /\ pc' = "append"
          /\ segment_text' = <<>>
          /\ returned' = Append(returned, <<>>)
          /\ exc' = "none"
    /\ (pc = "aai_status" /\ transcript_status \notin {"completed", "error"}) =>
          /\ pc' = "aai_poll"
          /\ returned' = returned
          /\ exc' = "none"
    /\ pc = "aai_poll" =>
          \/ pc' = "aai_status" /\ returned' = returned /\ exc' = "none"
          \/ pc' = "handler" /\ returned' = returned /\ exc' = "BackendError"

TimeOf(hms) == hms[1] * 360000 + hms[2] * 6000 + hms[3] * 100

\* C19: for every window the -ss and -t arguments handed to ffmpeg denote
\* the window's computed start and duration, so that the extracted files
\* cover [0, total_duration) also when total_duration has centiseconds.
C19_ExtractorGetsWindow ==
    /\ \A n \in 1..Len(windows) :
          /\ TimeOf(windows[n].ss) = windows[n].start
          /\ TimeOf(windows[n].t) = windows[n].duration
    /\ (SplitReturned /\ Len(windows) >= 1) =>
          TimeOf(windows[Len(windows)].ss) + TimeOf(windows[Len(windows)].t)
             = total_duration

\* C20: when process_file has returned, the content of the output file is
\* exactly all_text, the fragments of this job joined by the separator and
\* nothing else, whatever was at the output path before the job.
C20_OutputIsAllText ==
    pc = "Done" =>
        /\ all_text = Joined(returned)
        /\ OutData = all_text

-----------------------------------------------------------------------------
(* C21..C22 *)

\* The entries of a file that were written by the log statements.
LogEntries(data) ==
    SelectSeq(data, LAMBDA x : x \in {"HDR", "SEG", "END", "ERR"})

\* Writing the log header leaves the file at the output path as it was.
HeaderKeepsOutput ==
    (pc = "start" /\ pc' = "probe") => fs'[output_file'] = fs[output_file']

\* C21: for every output path, derived or supplied, the log path differs
\* from the output path, so no log line is ever in the transcript file, and
\* writing the log header never truncates the file at the output path.
C21_LogPathDiffers ==
    /\ [](pc # "start" => log_file # output_file)
    /\ [](pc # "start" => LogEntries(OutData) = <<>>)
    /\ [][HeaderKeepsOutput]_vars

\* CONFIG["chunk_duration"] as the module sets it (line 21).
DefaultChunk == 10

\* Values given with --chunk (type=int: argparse takes any integer); 0
\* stands for the option left out as well, both being falsy at line 514.
ChunkArgs == {-10, -5, 0, 5}

\* main, lines 514-515: if args.chunk: CONFIG["chunk_duration"] = args.chunk
ConfigChunk(arg) == IF arg # 0 THEN arg ELSE DefaultChunk

\* The initial states with chunk_duration as main leaves it for the values
\* of --chunk; everything else as in Init.
InitCli ==
    /\ chunk_duration \in {ConfigChunk(arg) : arg \in ChunkArgs}
    /\ api_service \in Services
    /\ api_key_set \in (IF api_service = "local" THEN {FALSE} ELSE BOOLEAN)
    /\ output_arg \in OutputArgs
    /\ \E old \in (IF output_arg = <<>> THEN {FALSE} ELSE BOOLEAN) :
          fs = [p \in Paths |->
                  IF old /\ p = output_arg THEN FileOf(<<"OLD">>) ELSE NoFile]
    /\ temp_files = {}
    /\ temp_dir \in BOOLEAN
    /\ pc = "start"
    /\ output_file = <<>>
    /\ log_file = <<>>
    /\ total_duration = -1
    /\ num_chunks = 0
    /\ chunk_files = <<>>
    /\ windows = <<>>
    /\ segments = <<>>
    /\ i = 0
    /\ all_text = <<>>
    /\ segment_text = <<>>
    /\ transcript_status = "none"
    /\ polls = 0
    /\ j = 0
    /\ exc = "none"
    /\ result = <<>>
    /\ called = <<>>
    /\ returned = <<>>
    /\ how = <<>>
    /\ appended = <<>>
    /\ duration_match = "unset"
    /\ exit_code = -1

SpecCli == InitCli /\ [][Next]_vars

\* C22: for every --chunk value the command line takes and every
\* total_duration >= 0, split_audio returns at least one segment, so a
\* job that is Done has appended at least one fragment and the path it
\* returns names an existing file.
C22_AtLeastOneSegment ==
    /\ (SplitReturned /\ total_duration >= 0) =>
          /\ num_chunks >= 1
          /\ Len(segments) >= 1
    /\ pc = "Done" =>
          /\ Len(appended) >= 1
          /\ fs[result].exists
=============================================================================
